---------------------------- MODULE Spec2Model ----------------------------
(***************************************************************************)
(* A model of the consumption machinery of nakadion.                       *)
(*                                                                         *)
(*   Spec            the NakadiWorker of src/src/client/worker/mod.rs: one *)
(*                   thread running nakadi_worker_loop (connect, the line  *)
(*                   loop, process_line, checkpoint) against a connector,  *)
(*                   and the owner of the NakadiWorker calling stop() or   *)
(*                   dropping it at any moment.                            *)
(*   DispatcherSpec  the Dispatcher of src/src/nakadi/dispatcher.rs: the   *)
(*                   dispatcher thread, its mailbox and its workers.       *)
(*   ConnectorSpec   the HyperClientConnector of src/src/connector.rs: one *)
(*                   call of read, checkpoint or stream_info and what it   *)
(*                   makes of the broker's answer.                         *)
(*                                                                         *)
(* Every step of a thread is one access to shared state (the atomic flag,  *)
(* a channel) or one call to the outside (Connector.read, handler.handle,  *)
(* Checkpoints.checkpoint, thread::sleep), so that the owner's stop() can  *)
(* fall between any two of them.                                           *)
(***************************************************************************)
EXTENDS Integers, Sequences, FiniteSets, TLC

\* ------------------------------------------------------------------ bounds

\* Streams the broker hands out (successful Connector.read calls).
MaxStreams == 2
\* Lines the broker sends on one stream.
MaxLines == 2
\* Batches offered to Dispatcher.process.
MaxBatches == 4
\* Failed attempts of one connect() call; above 16, so that the index into
\* RETRY_MILLIS saturates.
MaxAttempts == 17

\* ------------------------------------------------------------ program data

RETRY_MILLIS ==
    <<10, 20, 50, 100, 200, 300, 400, 500, 1000, 2000, 5000,
      10000, 30000, 60000, 300000, 600000>>

\* Duration::from_secs(30) in connect, in milliseconds.
ConflictPauseMillis == 30000

\* The last attempt number after which checkpoint still retries.
CheckpointRetries == 5

Min(a, b) == IF a < b THEN a ELSE b
Max(a, b) == IF a > b THEN a ELSE b

\* A retry_pause that indexes the table with the attempt, not the retry.
retry_pause_off_by_one(retry) ==
    RETRY_MILLIS[Min(retry + 1, Len(RETRY_MILLIS) - 1) + 1]

\* retry_pause: RETRY_MILLIS[min(retry, len - 1)], the table being 0-indexed
\* in the source and 1-indexed here.
retry_pause(retry) ==
    LET idx == Min(retry, Len(RETRY_MILLIS) - 1)
    IN  RETRY_MILLIS[idx + 1]

\* AfterBatchAction
Actions == {"Continue", "ContinueNoCheckpoint", "Stop", "Abort"}

\* The ClientErrorKinds Connector.read can return.
ReadErrors == {"Conflict", "Connection", "Status"}

\* The ClientErrorKinds Checkpoints.checkpoint can return.
CommitErrors == {"Connection", "CursorUnprocessable"}

Partitions == {"0", "1"}

\* Option<Vec<Value>>: <<>> is None (the field absent or null), <<n>> is
\* Some of an array of n events.
EventsField == {<<>>, <<0>>, <<1>>}

\* What the broker can put on one line of the stream: something that is not
\* a batch, or a batch for a partition with its events field.
Lines ==
    {[kind |-> "garbage", partition |-> "-", events |-> <<>>]}
    \cup [kind : {"batch"}, partition : Partitions, events : EventsField]

NoCursor == [partition |-> "-", offset |-> 0, origin |-> 0]

\* events.unwrap_or(Vec::new()) and serde_json::to_string of it: the JSON
\* array the handler is given, "[]" when the field was absent, null or empty.
events_str(events) ==
    LET events_json == IF events = <<>> THEN 0 ELSE events[1]
    IN  IF events_json = 0 THEN "[]" ELSE "[..]"

\* How the events field stood on the wire.
field_of(events) ==
    IF events = <<>> THEN "none" ELSE IF events[1] = 0 THEN "empty" ELSE "events"

\* ---------------------------------------------------------------- state

VARIABLES
    is_running,   \* NakadiWorker.is_running, the shared AtomicBool
    dropped,      \* the NakadiWorker has been dropped by its owner
    pc,           \* where the worker thread is
    attempt,      \* connect's attempt
    read_err,     \* the error of the read that connect is about to sleep on
    stream_id,    \* the StreamId connect returned to nakadi_worker_loop
    cursor,       \* the cursor of the line process_line works on
    action,       \* what handler.handle returned for it
    result,       \* what process_line returned to nakadi_worker_loop
    cp_attempt,   \* checkpoint's attempt: the calls made for this cursor
    cp_pause,     \* the pause checkpoint slept before its latest call
    issued,       \* broker: the streams handed out; the latest one's id
    line_no,      \* broker: the lines sent on the latest stream
    ended,        \* how, and at which line, the latest ended stream ended
    slept,        \* the pause slept since the latest read call
    retried,      \* the latest stream was opened after a failed read
    happy,        \* on the latest stream every handler call so far returned
                  \* Continue and every checkpoint call Ok
    stop_called,  \* the owner has called stop() or dropped the worker
    leave,        \* by which path the worker thread ended
    ev            \* the latest call the worker made to the outside

VARIABLES
    lifecycle,    \* the Lifecycle shared by the Dispatcher and its thread
    sender,       \* the Dispatcher (and with it the channel's Sender) exists
    receiver,     \* the dispatcher thread still holds the channel's Receiver
    channel,      \* the batches sent and not yet received
    produced,     \* the batches offered to Dispatcher.process so far
    accepted,     \* the partitions of those it accepted, in wire order
    d_pc,         \* where the dispatcher thread is
    batch,        \* the batch dispatcher_loop has received
    worker_idx,   \* the index of the worker it is for
    workers       \* dispatcher_loop's workers, in the order of creation

dvars == <<lifecycle, sender, receiver, channel, produced, accepted, d_pc,
           batch, worker_idx, workers>>

wvars == <<is_running, dropped, pc, attempt, read_err, stream_id, cursor,
           action, result, cp_attempt, cp_pause, issued, line_no, ended,
           slept, retried, happy, stop_called, leave, ev>>

VARIABLES
    request,      \* connector: the call at hand and what the broker does with it
    response      \* connector: what the call returned, "-" before it has

cvars == <<request, response>>

vars == <<wvars, dvars, cvars>>

\* A call to the outside: its type ("read", "sleep", "handle", "commit"; or
\* "parse_error", "transport", "eof" for what the line loop met), the
\* StreamId and cursor it carried, the attempt it belongs to, the pause slept
\* (for a sleep) or slept before it (for a read or a commit), its result or
\* the error slept on, and for a read how the stream before it had ended.
\* For a handle, info is the events string given to the handler and after is
\* how the events field stood on the wire.
Ev(type, sid, cur, att, pause, info, after) ==
    [type |-> type, sid |-> sid, cursor |-> cur, attempt |-> att,
     pause |-> pause, info |-> info, after |-> after]

NoEv == Ev("none", 0, NoCursor, 0, 0, "-", "-")

End(how, sid, offset) == [how |-> how, sid |-> sid, offset |-> offset]

NoEnd == End("none", 0, 0)

NoBatch == [seq |-> 0, partition |-> "-", events |-> FALSE]

\* Dispatcher::start: a fresh channel and Lifecycle, and the thread at the
\* head of dispatcher_loop with no workers.
DispatcherInit ==
    /\ lifecycle = [abort_requested |-> FALSE, running |-> TRUE]
    /\ sender = TRUE
    /\ receiver = TRUE
    /\ channel = <<>>
    /\ produced = 0
    /\ accepted = <<>>
    /\ d_pc = "check"
    /\ batch = NoBatch
    /\ worker_idx = 0
    /\ workers = <<>>

\* NakadiWorker::new: the flag is true and the thread is at the head of
\* nakadi_worker_loop; nothing was called yet.
WorkerInit ==
    /\ is_running = TRUE
    /\ dropped = FALSE
    /\ pc = "loop"
    /\ attempt = 0
    /\ read_err = "-"
    /\ stream_id = 0
    /\ cursor = NoCursor
    /\ action = "-"
    /\ result = "-"
    /\ cp_attempt = 0
    /\ cp_pause = 0
    /\ issued = 0
    /\ line_no = 0
    /\ ended = NoEnd
    /\ slept = 0
    /\ retried = FALSE
    /\ happy = FALSE
    /\ stop_called = FALSE
    /\ leave = "-"
    /\ ev = NoEv

\* No call of the HyperClientConnector is at hand.
NoRequest ==
    [op |-> "-", sent |-> FALSE, status |-> 0, stream_id |-> FALSE,
     parses |-> FALSE]

Init ==
    /\ DispatcherInit
    /\ WorkerInit
    /\ request = NoRequest
    /\ response = "-"

\* ------------------------------------------------------------ the owner

\* A stop that flips the flag: a second call sets it to true again.
stop_toggles ==
    /\ UNCHANGED <<dvars, cvars>>
    /\ ~dropped
    /\ is_running' = ~is_running
    /\ stop_called' = TRUE
    /\ UNCHANGED <<retried, happy>>
    /\ UNCHANGED <<dropped, pc, attempt, read_err, stream_id, cursor, action,
                   result, cp_attempt, cp_pause, issued, line_no, ended,
                   slept, leave, ev>>

\* NakadiWorker::stop
stop ==
    /\ UNCHANGED <<dvars, cvars>>
    /\ ~dropped
    /\ is_running' = FALSE
    /\ stop_called' = TRUE
    /\ UNCHANGED <<retried, happy>>
    /\ UNCHANGED <<dropped, pc, attempt, read_err, stream_id, cursor, action,
                   result, cp_attempt, cp_pause, issued, line_no, ended,
                   slept, leave, ev>>

\* Drop for NakadiWorker: self.stop()
drop ==
    /\ UNCHANGED <<dvars, cvars>>
    /\ ~dropped
    /\ dropped' = TRUE
    /\ is_running' = FALSE
    /\ stop_called' = TRUE
    /\ UNCHANGED <<retried, happy>>
    /\ UNCHANGED <<pc, attempt, read_err, stream_id, cursor, action,
                   result, cp_attempt, cp_pause, issued, line_no, ended,
                   slept, leave, ev>>


\* ------------------------------------------------- the worker thread

\* serde_json::from_str::<DeserializedBatch>(line): a line that is no batch
\* is an error; a batch gives its cursor and its events field. The broker
\* numbers the lines of a stream (the cursor's offset); origin is the stream
\* that carried the line.
from_str(line) ==
    IF line.kind = "garbage"
    THEN [ok |-> FALSE, cursor |-> NoCursor, events |-> <<>>]
    ELSE [ok |-> TRUE,
          cursor |-> [partition |-> line.partition, offset |-> line_no + 1,
                      origin |-> issued],
          events |-> line.events]

\* A loop head that sleeps the first pause of the table before it connects.
LoopHead_pauses_before_connect ==
    /\ UNCHANGED <<dvars, cvars>>
    /\ pc = "loop"
    /\ IF is_running
       THEN /\ pc' = "connect"
            /\ attempt' = 0
            /\ slept' = retry_pause(0)
            /\ UNCHANGED <<is_running, leave>>
       ELSE /\ pc' = "done"
            /\ is_running' = FALSE
            /\ leave' = "flag"
            /\ UNCHANGED <<attempt, slept>>
    /\ UNCHANGED <<retried, happy>>
    /\ UNCHANGED <<dropped, read_err, stream_id, cursor, action, result,
                   cp_attempt, cp_pause, issued, line_no, ended,
                   stop_called, ev>>

\* A loop head whose connect counts on from 1, as if one attempt had been
\* made already.
LoopHead_starts_at_one ==
    /\ UNCHANGED <<dvars, cvars>>
    /\ pc = "loop"
    /\ IF is_running
       THEN /\ pc' = "connect"
            /\ attempt' = 1
            /\ UNCHANGED <<is_running, leave>>
       ELSE /\ pc' = "done"
            /\ is_running' = FALSE
            /\ leave' = "flag"
            /\ UNCHANGED attempt
    /\ UNCHANGED <<retried, happy>>
    /\ UNCHANGED <<dropped, read_err, stream_id, cursor, action, result,
                   cp_attempt, cp_pause, issued, line_no, ended, slept,
                   stop_called, ev>>

\* while (*is_running).load(..) of nakadi_worker_loop, and what follows the
\* loop: the final store of false and the end of the thread.
LoopHead ==
    /\ UNCHANGED <<dvars, cvars>>
    /\ pc = "loop"
    /\ IF is_running
       THEN /\ pc' = "connect"
            /\ attempt' = 0
            /\ UNCHANGED <<is_running, leave>>
       ELSE /\ pc' = "done"
            /\ is_running' = FALSE
            /\ leave' = "flag"
            /\ UNCHANGED attempt
    /\ UNCHANGED <<retried, happy>>
    /\ UNCHANGED <<dropped, read_err, stream_id, cursor, action, result,
                   cp_attempt, cp_pause, issued, line_no, ended, slept,
                   stop_called, ev>>

\* A connect that gives up after five attempts.
ConnectCheck_gives_up_after_five ==
    /\ UNCHANGED <<dvars, cvars>>
    /\ pc = "connect"
    /\ IF is_running /\ attempt < 5
       THEN /\ pc' = "read"
            /\ attempt' = attempt + 1
            /\ UNCHANGED <<is_running, leave>>
       ELSE /\ pc' = "done"
            /\ is_running' = FALSE
            /\ leave' = "aborted"
            /\ UNCHANGED attempt
    /\ UNCHANGED <<retried, happy>>
    /\ UNCHANGED <<dropped, read_err, stream_id, cursor, action, result,
                   cp_attempt, cp_pause, issued, line_no, ended, slept,
                   stop_called, ev>>

\* while is_running.load(..) of connect; attempt += 1. When the flag is
\* false connect returns None, and nakadi_worker_loop breaks, stores false
\* and ends.
ConnectCheck ==
    /\ UNCHANGED <<dvars, cvars>>
    /\ pc = "connect"
    /\ IF is_running
       THEN /\ pc' = "read"
            /\ attempt' = attempt + 1
            /\ UNCHANGED <<is_running, leave>>
       ELSE /\ pc' = "done"
            /\ is_running' = FALSE
            /\ leave' = "aborted"
            /\ UNCHANGED attempt
    /\ UNCHANGED <<retried, happy>>
    /\ UNCHANGED <<dropped, read_err, stream_id, cursor, action, result,
                   cp_attempt, cp_pause, issued, line_no, ended, slept,
                   stop_called, ev>>

\* A read whose StreamId is taken from the first stream only and kept over
\* the reconnects.
ConnectRead_keeps_first_stream_id ==
    /\ UNCHANGED <<dvars, cvars>>
    /\ pc = "read"
    /\ \/ /\ issued < MaxStreams
          /\ issued' = issued + 1
          /\ stream_id' = IF stream_id = 0 THEN issued + 1 ELSE stream_id
          /\ line_no' = 0
          /\ pc' = "lines"
          /\ ev' = Ev("read", issued + 1, NoCursor, attempt, slept, "Ok",
                      ended.how)
          /\ attempt' = 0
          /\ retried' = (attempt > 1)
          /\ happy' = TRUE
          /\ UNCHANGED read_err
       \/ /\ attempt <= MaxAttempts
          /\ \E e \in ReadErrors :
                /\ read_err' = e
                /\ ev' = Ev("read", 0, NoCursor, attempt, slept, e, ended.how)
          /\ pc' = "pause"
          /\ UNCHANGED <<issued, stream_id, line_no, attempt, retried,
                       happy>>
    /\ slept' = 0
    /\ UNCHANGED <<is_running, dropped, cursor, action, result,
                   cp_attempt, cp_pause, ended, stop_called, leave>>

\* connector.read(subscription_id) in connect: the broker opens a stream and
\* names it, or the read fails. On success connect returns and its attempt
\* is gone with its frame (0 here).
ConnectRead ==
    /\ UNCHANGED <<dvars, cvars>>
    /\ pc = "read"
    /\ \/ /\ issued < MaxStreams
          /\ issued' = issued + 1
          /\ stream_id' = issued + 1
          /\ line_no' = 0
          /\ pc' = "lines"
          /\ ev' = Ev("read", issued + 1, NoCursor, attempt, slept, "Ok",
                      ended.how)
          /\ attempt' = 0
          /\ retried' = (attempt > 1)
          /\ happy' = TRUE
          /\ UNCHANGED read_err
       \/ /\ attempt <= MaxAttempts
          /\ \E e \in ReadErrors :
                /\ read_err' = e
                /\ ev' = Ev("read", 0, NoCursor, attempt, slept, e, ended.how)
          /\ pc' = "pause"
          /\ UNCHANGED <<issued, stream_id, line_no, attempt, retried,
                       happy>>
    /\ slept' = 0
    /\ UNCHANGED <<is_running, dropped, cursor, action, result,
                   cp_attempt, cp_pause, ended, stop_called, leave>>

\* The two error arms of connect: the pause and thread::sleep(pause).
ConnectPause ==
    /\ UNCHANGED <<dvars, cvars>>
    /\ pc = "pause"
    /\ LET pause == IF read_err = "Conflict"
                    THEN Max(retry_pause(attempt - 1), ConflictPauseMillis)
                    ELSE retry_pause(attempt - 1)
       IN  /\ slept' = pause
           /\ ev' = Ev("sleep", 0, NoCursor, attempt, pause, read_err,
                       ended.how)
    /\ pc' = "connect"
    /\ read_err' = "-"
    /\ UNCHANGED <<retried, happy>>
    /\ UNCHANGED <<is_running, dropped, attempt, stream_id, cursor, action,
                   result, cp_attempt, cp_pause, issued, line_no, ended,
                   stop_called, leave>>

\* One turn of for line in buffered_reader.lines(): the next line, a read
\* error, or the end of the body. For a line, process_line up to the call
\* of handler.handle, or up to its error when the line is no batch.
NextLine ==
    /\ UNCHANGED <<dvars, cvars>>
    /\ pc = "lines"
    /\ \/ /\ line_no < MaxLines
          /\ \E line \in Lines :
                LET parsed == from_str(line)
                IN  IF parsed.ok
                    THEN /\ cursor' = parsed.cursor
                         /\ ev' = Ev("handle", stream_id, parsed.cursor, 0, 0,
                                     events_str(parsed.events),
                                     field_of(line.events))
                         /\ pc' = "handling"
                         /\ result' = "-"
                         /\ UNCHANGED ended
                    ELSE /\ cursor' = NoCursor
                         /\ ev' = Ev("parse_error", stream_id, NoCursor, 0, 0,
                                     "-", "-")
                         /\ pc' = "returned"
                         /\ result' = "Err"
                         /\ ended' = End("parse", stream_id, line_no + 1)
          /\ line_no' = line_no + 1
       \/ /\ \E how \in {"transport", "eof"} :
                /\ ended' = End(how, stream_id, line_no + 1)
                /\ ev' = Ev(how, stream_id, NoCursor, 0, 0, "-", "-")
          /\ pc' = "loop"
          /\ cursor' = NoCursor
          /\ result' = "-"
          /\ UNCHANGED line_no
    /\ action' = "-"
    /\ cp_attempt' = 0
    /\ cp_pause' = 0
    /\ UNCHANGED <<retried, happy>>
    /\ UNCHANGED <<is_running, dropped, attempt, read_err, stream_id, issued,
                   slept, stop_called, leave>>

\* A match of process_line that checkpoints for every action but
\* ContinueNoCheckpoint.
HandlerReturn_checkpoints_abort ==
    /\ UNCHANGED <<dvars, cvars>>
    /\ pc = "handling"
    /\ \E a \in Actions :
          /\ action' = a
          /\ happy' = (happy /\ a = "Continue")
          /\ IF a \in {"Continue", "Stop", "Abort"}
             THEN /\ pc' = "checkpoint"
                  /\ UNCHANGED result
             ELSE /\ pc' = "returned"
                  /\ result' = a
    /\ UNCHANGED retried
    /\ UNCHANGED <<is_running, dropped, attempt, read_err, stream_id, cursor,
                   cp_attempt, cp_pause, issued, line_no, ended, slept,
                   stop_called, leave, ev>>

\* A match of process_line that checkpoints for Stop only.
HandlerReturn_checkpoints_stop_only ==
    /\ UNCHANGED <<dvars, cvars>>
    /\ pc = "handling"
    /\ \E a \in Actions :
          /\ action' = a
          /\ happy' = (happy /\ a = "Continue")
          /\ IF a \in {"Stop"}
             THEN /\ pc' = "checkpoint"
                  /\ UNCHANGED result
             ELSE /\ pc' = "returned"
                  /\ result' = a
    /\ UNCHANGED retried
    /\ UNCHANGED <<is_running, dropped, attempt, read_err, stream_id, cursor,
                   cp_attempt, cp_pause, issued, line_no, ended, slept,
                   stop_called, leave, ev>>

\* handler.handle returns, and the match of process_line on its action:
\* Continue and Stop enter checkpoint, the others return at once.
HandlerReturn ==
    /\ UNCHANGED <<dvars, cvars>>
    /\ pc = "handling"
    /\ \E a \in Actions :
          /\ action' = a
          /\ happy' = (happy /\ a = "Continue")
          /\ IF a \in {"Continue", "Stop"}
             THEN /\ pc' = "checkpoint"
                  /\ UNCHANGED result
             ELSE /\ pc' = "returned"
                  /\ result' = a
    /\ UNCHANGED retried
    /\ UNCHANGED <<is_running, dropped, attempt, read_err, stream_id, cursor,
                   cp_attempt, cp_pause, issued, line_no, ended, slept,
                   stop_called, leave, ev>>

\* handler.handle panics. Nothing between the handler and the closure of
\* thread::spawn catches the unwinding: the thread ends where it is.
HandlerPanic ==
    /\ UNCHANGED <<dvars, cvars>>
    /\ pc = "handling"
    /\ pc' = "panicked"
    /\ leave' = "panic"
    /\ happy' = FALSE
    /\ UNCHANGED retried
    /\ UNCHANGED <<is_running, dropped, attempt, read_err, stream_id, cursor,
                   action, result, cp_attempt, cp_pause, issued, line_no,
                   ended, slept, stop_called, ev>>

\* A loop of checkpoint without the "|| attempt == 0": while is_running.
CheckpointCheck_while_running_only ==
    /\ UNCHANGED <<dvars, cvars>>
    /\ pc = "checkpoint"
    /\ IF is_running
       THEN /\ cp_pause' = IF cp_attempt > 0
                           THEN retry_pause(cp_attempt - 1) ELSE 0
            /\ cp_attempt' = cp_attempt + 1
            /\ pc' = "commit"
            /\ UNCHANGED result
       ELSE /\ pc' = "returned"
            /\ result' = action
            /\ UNCHANGED <<cp_attempt, cp_pause>>
    /\ UNCHANGED <<retried, happy>>
    /\ UNCHANGED <<is_running, dropped, attempt, read_err, stream_id, cursor,
                   action, issued, line_no, ended, slept, stop_called, leave,
                   ev>>

\* while is_running.load(..) || attempt == 0 of checkpoint, the sleep before
\* a retry, and attempt += 1. When the loop ends, checkpoint returns and so
\* does process_line, with the handler's action.
CheckpointCheck ==
    /\ UNCHANGED <<dvars, cvars>>
    /\ pc = "checkpoint"
    /\ IF is_running \/ cp_attempt = 0
       THEN /\ cp_pause' = IF cp_attempt > 0
                           THEN retry_pause(cp_attempt - 1) ELSE 0
            /\ cp_attempt' = cp_attempt + 1
            /\ pc' = "commit"
            /\ UNCHANGED result
       ELSE /\ pc' = "returned"
            /\ result' = action
            /\ UNCHANGED <<cp_attempt, cp_pause>>
    /\ UNCHANGED <<retried, happy>>
    /\ UNCHANGED <<is_running, dropped, attempt, read_err, stream_id, cursor,
                   action, issued, line_no, ended, slept, stop_called, leave,
                   ev>>

\* A match that gives up one failed call later: when attempt > 6.
CheckpointCall_gives_up_later ==
    /\ UNCHANGED <<dvars, cvars>>
    /\ pc = "commit"
    /\ \E r \in {"Ok"} \cup CommitErrors :
          /\ ev' = Ev("commit", stream_id, cursor, cp_attempt, cp_pause, r,
                      "-")
          /\ happy' = (happy /\ r = "Ok")
          /\ IF r = "Ok" \/ cp_attempt > CheckpointRetries + 1
             THEN /\ pc' = "returned"
                  /\ result' = action
             ELSE /\ pc' = "checkpoint"
                  /\ UNCHANGED result
    /\ UNCHANGED retried
    /\ UNCHANGED <<is_running, dropped, attempt, read_err, stream_id, cursor,
                   action, cp_attempt, cp_pause, issued, line_no, ended,
                   slept, stop_called, leave>>

\* checkpointer.checkpoint(stream_id, subscription_id, cursors) and the match
\* on its result: return on Ok, give up when attempt > 5, else loop.
CheckpointCall ==
    /\ UNCHANGED <<dvars, cvars>>
    /\ pc = "commit"
    /\ \E r \in {"Ok"} \cup CommitErrors :
          /\ ev' = Ev("commit", stream_id, cursor, cp_attempt, cp_pause, r,
                      "-")
          /\ happy' = (happy /\ r = "Ok")
          /\ IF r = "Ok" \/ cp_attempt > CheckpointRetries
             THEN /\ pc' = "returned"
                  /\ result' = action
             ELSE /\ pc' = "checkpoint"
                  /\ UNCHANGED result
    /\ UNCHANGED retried
    /\ UNCHANGED <<is_running, dropped, attempt, read_err, stream_id, cursor,
                   action, cp_attempt, cp_pause, issued, line_no, ended,
                   slept, stop_called, leave>>

\* A match of nakadi_worker_loop that leaves the line loop after every
\* line and connects again, the stream still open.
AfterLine_reconnects_after_every_line ==
    /\ UNCHANGED <<dvars, cvars>>
    /\ pc = "returned"
    /\ IF result \in {"Continue", "ContinueNoCheckpoint", "Err"}
       THEN /\ pc' = "loop"
            /\ UNCHANGED <<is_running, leave>>
       ELSE /\ pc' = "done"
            /\ is_running' = FALSE
            /\ leave' = result
    /\ UNCHANGED <<retried, happy>>
    /\ UNCHANGED <<dropped, attempt, read_err, stream_id, cursor, action,
                   result, cp_attempt, cp_pause, issued, line_no, ended,
                   slept, stop_called, ev>>

\* A match of nakadi_worker_loop whose every arm goes on with the next line.
AfterLine_never_leaves ==
    /\ UNCHANGED <<dvars, cvars>>
    /\ pc = "returned"
    /\ pc' = "lines"
    /\ UNCHANGED <<retried, happy>>
    /\ UNCHANGED <<is_running, leave, dropped, attempt, read_err, stream_id,
                   cursor, action, result, cp_attempt, cp_pause, issued,
                   line_no, ended, slept, stop_called, ev>>

\* The match of nakadi_worker_loop on what process_line returned: go on with
\* the next line, leave (store false, return), or break to reconnect.
AfterLine ==
    /\ UNCHANGED <<dvars, cvars>>
    /\ pc = "returned"
    /\ IF result \in {"Continue", "ContinueNoCheckpoint"}
       THEN /\ pc' = "lines"
            /\ UNCHANGED <<is_running, leave>>
       ELSE IF result = "Err"
       THEN /\ pc' = "loop"
            /\ UNCHANGED <<is_running, leave>>
       ELSE /\ pc' = "done"
            /\ is_running' = FALSE
            /\ leave' = result
    /\ UNCHANGED <<retried, happy>>
    /\ UNCHANGED <<dropped, attempt, read_err, stream_id, cursor, action,
                   result, cp_attempt, cp_pause, issued, line_no, ended,
                   slept, stop_called, ev>>

Next ==
    \/ stop
    \/ drop
    \/ LoopHead
    \/ ConnectCheck
    \/ ConnectRead
    \/ ConnectPause
    \/ NextLine
    \/ HandlerReturn
    \/ HandlerPanic
    \/ CheckpointCheck
    \/ CheckpointCall
    \/ AfterLine

Spec == Init /\ [][Next]_vars

\* The steps of the worker thread.
WorkerThread ==
    \/ LoopHead
    \/ ConnectCheck
    \/ ConnectRead
    \/ ConnectPause
    \/ NextLine
    \/ HandlerReturn
    \/ HandlerPanic
    \/ CheckpointCheck
    \/ CheckpointCall
    \/ AfterLine

\* The worker is a thread of its own: it is scheduled as long as it has a
\* step to take, and every call it makes (read, handle, checkpoint, sleep)
\* returns.
FairSpec == Spec /\ WF_vars(WorkerThread)


\* ---------------------------------------------- a stream that never ends

\* One turn of for line in buffered_reader.lines() on a stream that the
\* broker keeps open: with no event to send it sends a keep-alive line, a
\* batch without events that repeats the offset of the latest line. The line
\* parses, and process_line gives it to the handler like any batch. Such
\* lines are not counted in line_no: there is no end to them.
KeepAlive ==
    /\ UNCHANGED <<dvars, cvars>>
    /\ pc = "lines"
    /\ \E p \in Partitions :
          LET kept == [partition |-> p, offset |-> line_no, origin |-> issued]
          IN  /\ cursor' = kept
              /\ ev' = Ev("handle", stream_id, kept, 0, 0, events_str(<<>>),
                          field_of(<<>>))
    /\ pc' = "handling"
    /\ result' = "-"
    /\ action' = "-"
    /\ cp_attempt' = 0
    /\ cp_pause' = 0
    /\ UNCHANGED <<retried, happy>>
    /\ UNCHANGED <<is_running, dropped, attempt, read_err, stream_id, issued,
                   line_no, ended, slept, stop_called, leave>>

EndlessNext ==
    \/ Next
    \/ KeepAlive

\* The worker thread is scheduled as long as it has a step to take, on a
\* stream that may go on for ever.
EndlessSpec ==
    Init /\ [][EndlessNext]_vars /\ WF_vars(WorkerThread \/ KeepAlive)


\* ----------------------------------------------------- the dispatcher

\* The partition of a batch line as partition_str gives it: a PartitionId, or
\* an error when its bytes are not UTF-8.
BatchPartitions == Partitions \cup {"non-utf8"}

\* The batches the streaming client can hand to Dispatcher.process: events
\* is whether batch_line.events() is Some.
Batches == [partition : BatchPartitions, events : BOOLEAN]

\* What a handler can do with a batch: return an action, or panic.
Outcomes == Actions \cup {"Panic"}

\* Worker::start: a running worker for the partition with an empty mailbox.
\* seen are the batches (by wire number) its handler was given.
Worker_start(partition) ==
    [partition |-> partition, inbox |-> <<>>, running |-> TRUE,
     stop_requested |-> FALSE, seen |-> <<>>]

\* A lookup that looks at the worker started last only.
position_last(partition) ==
    IF workers # <<>> /\ workers[Len(workers)].partition = partition
    THEN Len(workers) ELSE 0

\* A lookup that takes the first worker whatever its partition.
position_first(partition) ==
    IF workers = <<>> THEN 0 ELSE 1

\* workers.iter().position(|w| w.partition() == &partition): the index of
\* the first worker of the partition (from 1), 0 for None.
position(partition) ==
    LET found == {i \in 1..Len(workers) : workers[i].partition = partition}
    IN  IF found = {} THEN 0
        ELSE CHOOSE i \in found : \A j \in found : i <= j

\* Dispatcher::process: sender.send(batch). The send fails once the
\* Receiver is gone, and the batch is lost to the caller's error. A batch
\* that is accepted gets the next wire number.
Dispatcher_process ==
    /\ sender
    /\ produced < MaxBatches
    /\ \E b \in Batches :
          IF receiver
          THEN /\ channel' = Append(channel,
                                    [seq |-> Len(accepted) + 1,
                                     partition |-> b.partition,
                                     events |-> b.events])
               /\ accepted' = Append(accepted, b.partition)
          ELSE UNCHANGED <<channel, accepted>>
    /\ produced' = produced + 1
    /\ UNCHANGED <<lifecycle, sender, receiver, d_pc, batch, worker_idx,
                   workers>>
    /\ UNCHANGED <<wvars, cvars>>

\* Dispatcher::stop: lifecycle.request_abort()
Dispatcher_stop ==
    /\ sender
    /\ lifecycle' = [lifecycle EXCEPT !.abort_requested = TRUE]
    /\ UNCHANGED <<sender, receiver, channel, produced, accepted, d_pc, batch,
                   worker_idx, workers>>
    /\ UNCHANGED <<wvars, cvars>>

\* The Dispatcher is dropped, and its Sender with it.
Dispatcher_drop ==
    /\ sender
    /\ sender' = FALSE
    /\ UNCHANGED <<lifecycle, receiver, channel, produced, accepted, d_pc, batch,
                   worker_idx, workers>>
    /\ UNCHANGED <<wvars, cvars>>

\* A loop head that does not look at the Lifecycle.
CheckAbort_ignores_abort ==
    /\ d_pc = "check"
    /\ d_pc' = "recv"
    /\ UNCHANGED <<lifecycle, sender, receiver, channel, produced, accepted, batch,
                   worker_idx, workers>>
    /\ UNCHANGED <<wvars, cvars>>

\* if lifecycle.abort_requested() { break } at the head of the loop.
CheckAbort ==
    /\ d_pc = "check"
    /\ d_pc' = IF lifecycle.abort_requested THEN "stop_workers" ELSE "recv"
    /\ UNCHANGED <<lifecycle, sender, receiver, channel, produced, accepted, batch,
                   worker_idx, workers>>
    /\ UNCHANGED <<wvars, cvars>>

\* A loop without the break on a keep-alive: it goes on to the partition.
Receive_forwards_keep_alive ==
    /\ d_pc = "recv"
    /\ IF channel # <<>>
       THEN LET b == Head(channel)
                idx == position(b.partition)
            IN  /\ channel' = Tail(channel)
                /\ batch' = b
                /\ IF b.partition = "non-utf8"
                   THEN /\ d_pc' = "stop_workers"
                        /\ UNCHANGED <<workers, worker_idx>>
                   ELSE /\ d_pc' = "forward"
                        /\ IF idx # 0
                           THEN /\ worker_idx' = idx
                                /\ UNCHANGED workers
                           ELSE /\ workers' = Append(workers,
                                                     Worker_start(b.partition))
                                /\ worker_idx' = Len(workers) + 1
       ELSE /\ d_pc' = IF sender THEN "check" ELSE "stop_workers"
            /\ UNCHANGED <<channel, batch, workers, worker_idx>>
    /\ UNCHANGED <<lifecycle, sender, receiver, produced, accepted>>
    /\ UNCHANGED <<wvars, cvars>>

\* receiver.recv_timeout(5 ms) and what the loop does with a batch before it
\* forwards it: break on a keep-alive and on a partition that is not UTF-8,
\* else find the worker of the partition or start one. An empty channel
\* gives Timeout (continue) or, the Sender gone, Disconnected (break).
Receive ==
    /\ d_pc = "recv"
    /\ IF channel # <<>>
       THEN LET b == Head(channel)
                idx == position(b.partition)
            IN  /\ channel' = Tail(channel)
                /\ batch' = b
                /\ IF ~b.events \/ b.partition = "non-utf8"
                   THEN /\ d_pc' = "stop_workers"
                        /\ UNCHANGED <<workers, worker_idx>>
                   ELSE /\ d_pc' = "forward"
                        /\ IF idx # 0
                           THEN /\ worker_idx' = idx
                                /\ UNCHANGED workers
                           ELSE /\ workers' = Append(workers,
                                                     Worker_start(b.partition))
                                /\ worker_idx' = Len(workers) + 1
       ELSE /\ d_pc' = IF sender THEN "check" ELSE "stop_workers"
            /\ UNCHANGED <<channel, batch, workers, worker_idx>>
    /\ UNCHANGED <<lifecycle, sender, receiver, produced, accepted>>
    /\ UNCHANGED <<wvars, cvars>>

\* A loop that goes on with the next batch when a worker refuses one.
Forward_goes_on_after_refusal ==
    /\ d_pc = "forward"
    /\ IF workers[worker_idx].running
       THEN /\ workers' = [workers EXCEPT
                             ![worker_idx].inbox = Append(@, batch)]
            /\ d_pc' = "check"
       ELSE /\ d_pc' = "check"
            /\ UNCHANGED workers
    /\ UNCHANGED <<lifecycle, sender, receiver, channel, produced, accepted, batch,
                   worker_idx>>
    /\ UNCHANGED <<wvars, cvars>>

\* worker.process(batch): the batch goes to the worker's mailbox; a worker
\* that has ended refuses it, and the loop breaks.
Forward ==
    /\ d_pc = "forward"
    /\ IF workers[worker_idx].running
       THEN /\ workers' = [workers EXCEPT
                             ![worker_idx].inbox = Append(@, batch)]
            /\ d_pc' = "check"
       ELSE /\ d_pc' = "stop_workers"
            /\ UNCHANGED workers
    /\ UNCHANGED <<lifecycle, sender, receiver, channel, produced, accepted, batch,
                   worker_idx>>
    /\ UNCHANGED <<wvars, cvars>>

\* An end of the loop that calls stop() on the first worker only.
StopWorkers_stops_first_only ==
    /\ d_pc = "stop_workers"
    /\ workers' = [i \in 1..Len(workers) |->
                     IF i = 1
                     THEN [workers[i] EXCEPT !.stop_requested = TRUE]
                     ELSE workers[i]]
    /\ d_pc' = "wait"
    /\ UNCHANGED <<lifecycle, sender, receiver, channel, produced, accepted, batch,
                   worker_idx>>
    /\ UNCHANGED <<wvars, cvars>>

\* workers.iter().for_each(|w| w.stop())
StopWorkers ==
    /\ d_pc = "stop_workers"
    /\ workers' = [i \in 1..Len(workers) |->
                     [workers[i] EXCEPT !.stop_requested = TRUE]]
    /\ d_pc' = "wait"
    /\ UNCHANGED <<lifecycle, sender, receiver, channel, produced, accepted, batch,
                   worker_idx>>
    /\ UNCHANGED <<wvars, cvars>>

\* An end of the loop that signals stopped without waiting for the workers.
WaitForWorkers_does_not_wait ==
    /\ d_pc = "wait"
    /\ d_pc' = "stopped"
    /\ lifecycle' = [lifecycle EXCEPT !.running = FALSE]
    /\ UNCHANGED <<sender, receiver, channel, produced, accepted, batch,
                   worker_idx, workers>>
    /\ UNCHANGED <<wvars, cvars>>

\* while workers.iter().any(|w| w.running()) { sleep(10 ms) }, then
\* lifecycle.stopped().
WaitForWorkers ==
    /\ d_pc = "wait"
    /\ IF \E i \in 1..Len(workers) : workers[i].running
       THEN UNCHANGED <<d_pc, lifecycle>>
       ELSE /\ d_pc' = "stopped"
            /\ lifecycle' = [lifecycle EXCEPT !.running = FALSE]
    /\ UNCHANGED <<sender, receiver, channel, produced, accepted, batch,
                   worker_idx, workers>>
    /\ UNCHANGED <<wvars, cvars>>

\* dispatcher_loop returns and the thread ends: the Receiver it owned is
\* dropped.
dispatcher_loop_returns ==
    /\ d_pc = "stopped"
    /\ d_pc' = "ended"
    /\ receiver' = FALSE
    /\ UNCHANGED <<lifecycle, sender, channel, produced, accepted, batch,
                   worker_idx, workers>>
    /\ UNCHANGED <<wvars, cvars>>

\* A worker between two batches: it ends when its stop was requested, else
\* it takes the next batch of its mailbox and gives it to its handler;
\* Continue and ContinueNoCheckpoint let it go on, Stop, Abort and a panic of
\* the handler end it.
WorkerStep(i) ==
    /\ workers[i].running
    /\ IF workers[i].stop_requested
       THEN workers' = [workers EXCEPT ![i].running = FALSE]
       ELSE /\ workers[i].inbox # <<>>
            /\ \E o \in Outcomes :
                  workers' = [workers EXCEPT
                     ![i].inbox = Tail(@),
                     ![i].seen = Append(@, Head(workers[i].inbox).seq),
                     ![i].running = o \in {"Continue", "ContinueNoCheckpoint"}]
    /\ UNCHANGED <<lifecycle, sender, receiver, channel, produced, accepted, d_pc,
                   batch, worker_idx>>
    /\ UNCHANGED <<wvars, cvars>>

Work == \E i \in 1..Len(workers) : WorkerStep(i)

DispatcherNext ==
    \/ Dispatcher_process
    \/ Dispatcher_stop
    \/ Dispatcher_drop
    \/ CheckAbort
    \/ Receive
    \/ Forward
    \/ StopWorkers
    \/ WaitForWorkers
    \/ dispatcher_loop_returns
    \/ Work

DispatcherSpec == Init /\ [][DispatcherNext]_vars

\* The steps of the dispatcher thread.
DispatcherThread ==
    \/ CheckAbort
    \/ Receive
    \/ Forward
    \/ StopWorkers
    \/ WaitForWorkers
    \/ dispatcher_loop_returns

\* A worker whose stop() was called reports not-running.
StoppedWorkerEnds ==
    \E i \in 1..Len(workers) : workers[i].stop_requested /\ WorkerStep(i)

\* The dispatcher is a thread of its own, scheduled as long as it has a step
\* to take (recv_timeout and the sleeps return), and a worker that was told
\* to stop ends.
FairDispatcherSpec ==
    DispatcherSpec /\ WF_vars(DispatcherThread) /\ WF_vars(StoppedWorkerEnds)


\* ------------------------------------------------------ either program

\* The NakadiWorker and the Dispatcher are two programs of the crate that
\* are never run together: a run is a run of one of them, the other staying
\* as it was constructed.
EitherNext ==
    \/ DispatcherInit /\ Next
    \/ WorkerInit /\ DispatcherNext

EitherSpec == Init /\ [][EitherNext]_vars


\* ------------------------------------------------------- the connector

\* The HTTP statuses the broker answers with: those the connector has an
\* arm for (Ok, NoContent, BadRequest, Forbidden, NotFound, Conflict,
\* UnprocessableEntity) and two it has none for.
Statuses == {200, 204, 400, 403, 404, 409, 422, 500, 503}

\* A call of the connector and the broker's part in it: whether
\* request.send() gets an answer at all, the status of the answer, whether
\* it carries the X-Nakadi-StreamId header, and whether its body parses as
\* a StreamInfo.
Requests ==
    [op : {"read", "checkpoint", "stream_info"}, sent : BOOLEAN,
     status : Statuses, stream_id : BOOLEAN, parses : BOOLEAN]

\* HyperClientConnector::read: match request.send(), match rsp.status.
read(rq) ==
    IF ~rq.sent THEN "Connection"
    ELSE CASE rq.status = 200 ->
                 IF rq.stream_id THEN "Ok" ELSE "InvalidResponse"
           [] rq.status = 400 -> "Request"
           [] rq.status = 404 -> "NoSubscription"
           [] rq.status = 403 -> "Forbidden"
           [] rq.status = 409 -> "Conflict"
           [] OTHER -> "Status"

\* HyperClientConnector::checkpoint
checkpoint(rq) ==
    IF ~rq.sent THEN "Connection"
    ELSE CASE rq.status = 204 -> "Ok"
           [] rq.status = 200 -> "Ok"
           [] rq.status = 400 -> "Request"
           [] rq.status = 404 -> "NoSubscription"
           [] rq.status = 403 -> "Forbidden"
           [] rq.status = 422 -> "CursorUnprocessable"
           [] OTHER -> "Status"

\* HyperClientConnector::stream_info
stream_info(rq) ==
    IF ~rq.sent THEN "Connection"
    ELSE CASE rq.status = 200 ->
                 IF rq.parses THEN "Ok" ELSE "InvalidResponse"
           [] rq.status = 400 -> "Request"
           [] rq.status = 404 -> "NoSubscription"
           [] rq.status = 403 -> "Forbidden"
           [] OTHER -> "Status"

\* A call is made to a broker that answers in any of these ways.
ConnectorInit ==
    /\ DispatcherInit
    /\ WorkerInit
    /\ request \in Requests
    /\ response = "-"

\* impl ReadsStream for HyperClientConnector
ReadsStream ==
    /\ request.op = "read"
    /\ response = "-"
    /\ response' = read(request)
    /\ UNCHANGED <<wvars, dvars, request>>

\* impl Checkpoints for HyperClientConnector
Checkpoints ==
    /\ request.op = "checkpoint"
    /\ response = "-"
    /\ response' = checkpoint(request)
    /\ UNCHANGED <<wvars, dvars, request>>

\* impl ProvidesStreamInfo for HyperClientConnector
ProvidesStreamInfo ==
    /\ request.op = "stream_info"
    /\ response = "-"
    /\ response' = stream_info(request)
    /\ UNCHANGED <<wvars, dvars, request>>

ConnectorNext ==
    \/ ReadsStream
    \/ Checkpoints
    \/ ProvidesStreamInfo

ConnectorSpec == ConnectorInit /\ [][ConnectorNext]_vars


\* ------------------------------------------------------------ the claims

\* C1: every checkpoint call carries the StreamId of the stream that
\* delivered the cursor it commits, never that of an earlier or later one.
C1_CommitCarriesDeliveringStreamId ==
    ev.type = "commit" => /\ ev.cursor.origin > 0
                          /\ ev.sid = ev.cursor.origin

\* A checkpoint call made on the second stream, after a reconnect.
C1_Witness ==
    /\ ev.type = "commit"
    /\ ev.cursor.origin = 2

\* The wire numbers of the batches forwarded to a worker, in the order of
\* forwarding: those its handler was given, then those in its mailbox.
Forwarded(w) ==
    w.seen \o [k \in 1..Len(w.inbox) |-> w.inbox[k].seq]

\* C2: the batches of a partition are forwarded to the partition's worker
\* and given to its handler in wire order: what a worker was forwarded is
\* of its partition and ascends in wire number, no earlier batch of the
\* partition is missing before a forwarded one, and the handler was given
\* the head of it, whatever batches of other partitions came between.
C2_PartitionOrder ==
    \A i \in 1..Len(workers) :
        LET w == workers[i]
            all == Forwarded(w)
        IN  /\ \A k \in 1..Len(all) : accepted[all[k]] = w.partition
            /\ \A k \in 1..Len(w.inbox) : w.inbox[k].partition = w.partition
            /\ \A a, b \in 1..Len(all) : a < b => all[a] < all[b]
            /\ \A b \in 1..Len(all) : \A n \in 1..(all[b] - 1) :
                   accepted[n] = w.partition =>
                       \E a \in 1..(b - 1) : all[a] = n

\* A handler was given two batches of its partition between which a batch of
\* another partition went to another worker.
C2_Witness ==
    \E i, j \in 1..Len(workers) :
        /\ i # j
        /\ Len(workers[i].seen) >= 2
        /\ \E k \in 1..Len(Forwarded(workers[j])) :
               /\ workers[i].seen[1] < Forwarded(workers[j])[k]
               /\ Forwarded(workers[j])[k] < workers[i].seen[2]

\* C3: a checkpoint call is made for a cursor exactly when the handler
\* returned Continue or Stop for its batch: a call is for the batch at hand
\* and follows the handler's return, and when process_line returns an action
\* at least one call was made for Continue and Stop and none for
\* ContinueNoCheckpoint and Abort.
C3_CheckpointIffContinueOrStop ==
    /\ ev.type = "commit" =>
          /\ ev.cursor = cursor
          /\ action \in {"Continue", "Stop"}
          /\ pc \in {"checkpoint", "commit", "returned", "lines", "loop",
                     "done"}
    /\ pc = "handling" => ev.type = "handle" /\ cp_attempt = 0
    /\ (pc = "returned" /\ result \in {"Continue", "Stop"}) =>
          /\ cp_attempt >= 1
          /\ ev.type = "commit"
          /\ ev.cursor = cursor
    /\ (pc = "returned" /\ result \in {"ContinueNoCheckpoint", "Abort"}) =>
          /\ cp_attempt = 0
          /\ ev.type = "handle"
          /\ ev.cursor = cursor

\* process_line has returned Abort, and the latest call is still the handler's.
C3_Witness ==
    /\ pc = "returned"
    /\ result = "Abort"
    /\ ev.type = "handle"

\* C4: when the handler returns Stop the cursor of its batch is submitted
\* for commit before the worker leaves; from the return of process_line on no
\* call to the outside is made any more (no line handled, no read, no
\* commit), and the thread ends with the running flag false.
C4_StopCommitsThenShutsDown ==
    /\ [](action = "Stop" =>
            /\ pc \in {"checkpoint", "commit", "returned", "done"}
            /\ pc \in {"returned", "done"} =>
                  /\ cp_attempt >= 1
                  /\ ev.type = "commit"
                  /\ ev.cursor = cursor
                  /\ ev.sid = stream_id
            /\ pc = "done" => ~is_running /\ leave = "Stop")
    /\ [][(action = "Stop" /\ pc \in {"returned", "done"}) =>
            /\ pc' \in {"returned", "done"}
            /\ pc' = "done" => ~is_running'
            /\ ev' = ev
            /\ issued' = issued
            /\ line_no' = line_no]_vars

\* The worker has left on a Stop.
C4_Witness ==
    /\ pc = "done"
    /\ leave = "Stop"

\* C5: when process_line returns Abort the stream is not torn down: unless
\* the owner has stopped the worker, the loop goes on with the next line of
\* the same stream and the running flag stays true.
C5_AbortKeepsStream ==
    [][(pc = "returned" /\ result = "Abort" /\ ~stop_called') =>
            /\ pc' = "lines"
            /\ is_running'
            /\ stream_id' = stream_id]_vars

\* C6: a panic of handler.handle is treated as Abort: no checkpoint is made
\* for the batch and the worker ends with its running flag false.
C6_PanicLeavesNotRunning ==
    pc = "panicked" => /\ ev.type = "handle"
                       /\ ~is_running

\* C7: handler.handle is invoked only for batches that carry events, never
\* for a keep-alive line (events absent, null or empty).
C7_KeepAliveNotHandled ==
    ev.type = "handle" => ev.after = "events"

\* C8: a line that fails to parse is not handled and not committed, no later
\* line of its stream is handled or committed, and the next call to the
\* outside is a new Connector.read, which the worker does make unless it
\* finds the running flag false.
C8_ParseFailureEndsStream ==
    /\ [](ended.how = "parse" =>
            /\ ev.type \in {"handle", "commit"} =>
                  /\ ev.sid > ended.sid
                  /\ ev.cursor.origin > ended.sid
            /\ pc \in {"lines", "handling", "checkpoint", "commit"} =>
                  stream_id > ended.sid
            /\ ev.type = "parse_error" =>
                  /\ ev.sid = ended.sid
                  /\ pc \in {"returned", "loop", "connect", "read", "done"}
                  /\ pc = "done" => leave \in {"flag", "aborted"})
    /\ [][(ev.type = "parse_error" /\ ev' # ev) => ev'.type = "read"]_vars
    /\ (ev.type = "parse_error") ~> (ev.type = "read" \/ ~is_running)

\* A read has succeeded after a parse failure.
C8_Witness ==
    /\ ended.how = "parse"
    /\ ev.type = "read"
    /\ ev.info = "Ok"

\* C9 as claimed: after a read error or a parse error in the line loop, the
\* next Connector.read is preceded by a pause.
C9_PauseBeforeReconnect ==
    (ev.type = "read" /\ ev.after \in {"parse", "transport"}) => ev.pause > 0

\* C9 as amended: after a read error or a parse error in the line loop the
\* stream is terminated (no further line of it is taken), and the reconnect
\* goes through connect: its first Connector.read is made without a pause,
\* and every further one follows a failed read and the pause of the backoff
\* table for that failure.
C9_ReconnectBackoffAfterFailedRead ==
    /\ (ended.how \in {"parse", "transport"} /\ stream_id = ended.sid) =>
          pc \notin {"lines", "handling", "checkpoint", "commit"}
    /\ (ev.type = "read" /\ ev.after \in {"parse", "transport"}) =>
          IF ev.attempt = 1
          THEN ev.pause = 0
          ELSE ev.pause \in {retry_pause(ev.attempt - 2),
                             Max(retry_pause(ev.attempt - 2),
                                 ConflictPauseMillis)}

\* The second read of a reconnect after a read error in the line loop.
C9_Witness ==
    /\ ev.type = "read"
    /\ ev.after = "transport"
    /\ ev.attempt = 2

\* The backoff table of the claim.
RETRY ==
    <<10, 20, 50, 100, 200, 300, 400, 500, 1000, 2000, 5000, 10000, 30000,
      60000, 300000, 600000>>

\* C10: the sleep after the failed attempt n of connect is
\* RETRY[min(n-1, 15)] ms for an error other than Conflict and
\* max(RETRY[min(n-1, 15)], 30000) ms for Conflict (RETRY indexed from 0),
\* and attempt n+1 follows it.
C10_ConnectSleepTable ==
    ev.type = "sleep" =>
        /\ ev.attempt >= 1
        /\ pc \in {"connect", "read", "done"}
        /\ pc = "connect" => attempt = ev.attempt
        /\ pc = "read" => attempt = ev.attempt + 1
        /\ ev.pause = IF ev.info = "Conflict"
                      THEN Max(RETRY[Min(ev.attempt - 1, 15) + 1], 30000)
                      ELSE RETRY[Min(ev.attempt - 1, 15) + 1]

\* The sleep after the failed attempt 17, where the index has saturated.
C10_Witness ==
    /\ ev.type = "sleep"
    /\ ev.attempt = 17
    /\ ev.info = "Connection"
    /\ ev.pause = 600000

\* C11: every connect sequence counts its attempts from 1 again, whatever the
\* sequence before it went through: a read call that does not follow a sleep
\* (the first of its sequence) is attempt 1, and the sleep after a failed
\* first attempt is RETRY[0] = 10 ms, 30000 ms for a Conflict.
C11_AttemptCounterResets ==
    [][/\ (ev' # ev /\ ev'.type = "read" /\ ev.type # "sleep")
            => ev'.attempt = 1
       /\ (ev' # ev /\ ev'.type = "sleep" /\ ev.type = "read"
              /\ ev.attempt = 1)
            => /\ ev'.attempt = 1
               /\ ev'.pause = IF ev.info = "Conflict" THEN 30000 ELSE 10]_vars

\* A stream that was opened after failed reads has ended, and the first read
\* of the next connect sequence has failed and was slept on for 10 ms.
C11_Witness ==
    /\ retried
    /\ issued >= 1
    /\ ended.sid = issued
    /\ ev.type = "sleep"
    /\ ev.attempt = 1
    /\ ev.pause = 10

\* C12: the commit calls for one cursor are numbered 1, 2, ... without a gap
\* and there are never more than 6 of them (the first call and at most 5
\* retries); a call follows only a failed call for the same cursor, so the
\* calls stop at the first success; and the k-th retry (call k+1) is made
\* after a sleep of RETRY[k-1] ms (RETRY indexed from 0: the k-th entry of
\* the table), the first call after none.
C12_CommitRetriedAtMostFiveTimes ==
    [][(ev' # ev /\ ev'.type = "commit") =>
          /\ ev'.attempt \in 1..6
          /\ ev'.pause = IF ev'.attempt = 1 THEN 0
                         ELSE RETRY[ev'.attempt - 1]
          /\ IF ev.type = "commit"
             THEN /\ ev.info # "Ok"
                  /\ ev'.cursor = ev.cursor
                  /\ ev'.attempt = ev.attempt + 1
             ELSE /\ ev.type = "handle"
                  /\ ev'.cursor = ev.cursor
                  /\ ev'.attempt = 1]_vars

\* The fifth retry of a commit has been made, after a sleep of 200 ms, and
\* has failed like the five calls before it: checkpoint has given up.
C12_Witness ==
    /\ ev.type = "commit"
    /\ ev.attempt = 6
    /\ ev.pause = 200
    /\ ev.info # "Ok"
    /\ pc = "returned"

\* C13: a commit call that failed with CursorUnprocessable (422) is not
\* retried: the call after it, if any, is no commit call (it is the handler
\* call for the next batch, or the read of a next stream).
C13_CursorUnprocessableNotRetried ==
    [][(ev.type = "commit" /\ ev.info = "CursorUnprocessable" /\ ev' # ev)
          => ev'.type # "commit"]_vars

\* C14: when the sixth commit call for a cursor has failed with a transient
\* error (the retries are exhausted), the stream is terminated: no further
\* line of that stream is handed to the handler.
C14_ExhaustedCommitEndsStream ==
    [][(/\ ev.type = "commit"
        /\ ev.attempt = 6
        /\ ev.info = "Connection"
        /\ ev' # ev)
          => ~(ev'.type = "handle" /\ ev'.sid = ev.sid)]_vars

\* C15 as stated: at the moment Dispatcher::stop returns (the step that
\* requests the abort), every worker of the dispatcher is not-running.
C15_StopReturnsWithWorkersStopped ==
    [][(~lifecycle.abort_requested /\ lifecycle'.abort_requested)
          => \A i \in 1..Len(workers') : ~workers'[i].running]_vars

\* C15, amended: once stop() has been called and the dispatcher reports
\* that it has stopped (is_running() is false), every worker of the
\* dispatcher is not-running.
C15_StoppedAfterStopWithWorkersStopped ==
    (lifecycle.abort_requested /\ ~lifecycle.running)
        => \A i \in 1..Len(workers) : ~workers[i].running

\* stop() was called on a dispatcher with two workers that had both been
\* given batches, and the dispatcher has stopped.
C15_Witness ==
    /\ lifecycle.abort_requested
    /\ ~lifecycle.running
    /\ Len(workers) = 2
    /\ \A i \in 1..Len(workers) : workers[i].seen # <<>>

\* The partitions of the batches that dispatcher_loop has forwarded to a
\* worker or is about to forward.
ForwardedPartitions ==
    {accepted[n] : n \in UNION {{Forwarded(workers[i])[k] :
                                     k \in 1..Len(Forwarded(workers[i]))} :
                                 i \in 1..Len(workers)}}
    \cup (IF d_pc = "forward" THEN {batch.partition} ELSE {})

\* C16: no two workers of a dispatcher own the same partition, and there
\* are as many workers as distinct partitions among the batches forwarded so
\* far; a worker is created exactly when a batch to be forwarded is of a
\* partition no worker owns yet, and it is created for that partition.
C16_OneWorkerPerPartition ==
    /\ [](/\ \A i, j \in 1..Len(workers) :
               workers[i].partition = workers[j].partition => i = j
          /\ Len(workers) = Cardinality(ForwardedPartitions))
    /\ [][/\ Len(workers') # Len(workers)
              => /\ d_pc' = "forward"
                 /\ Len(workers') = Len(workers) + 1
                 /\ workers'[Len(workers')] = Worker_start(batch'.partition)
                 /\ \A i \in 1..Len(workers) :
                        workers[i].partition # batch'.partition
          /\ (d_pc # "forward" /\ d_pc' = "forward"
                /\ \A i \in 1..Len(workers) :
                       workers[i].partition # batch'.partition)
              => Len(workers') = Len(workers) + 1]_vars

\* Four batches alternating between the partitions "0" and "1" have been
\* forwarded: there are two workers, and each was forwarded two batches.
C16_Witness ==
    /\ accepted = <<"0", "1", "0", "1">>
    /\ Len(workers) = 2
    /\ \A i \in 1..Len(workers) : Len(Forwarded(workers[i])) = 2

\* C17: a requested stop is observed at every cooperative point of the
\* worker: once the flag is false, connect starts no further attempt (no
\* attempt is counted and no read follows the check), and after a batch no
\* handler invocation is started for a further batch.
C17_StopObservedAtCooperativePoints ==
    [][~is_running =>
          /\ ~(pc = "connect" /\ pc' = "read")
          /\ ~(/\ ev.type \in {"handle", "commit"}
               /\ ev' # ev
               /\ ev'.type = "handle")]_vars

\* C18: a running flag that is false stays false, for the flag of the
\* NakadiWorker and for the Lifecycle of the Dispatcher, and an abort that
\* was requested stays requested.
C18_NoRevival ==
    [][/\ ~is_running => ~is_running'
       /\ ~lifecycle.running => ~lifecycle'.running
       /\ lifecycle.abort_requested => lifecycle'.abort_requested]_vars

\* A run in which a flag has become false and the owner acts on the stopped
\* program once more: the worker thread has ended and stop() was called, or
\* the dispatcher has stopped after a requested abort and a batch was
\* offered to it and lost.
C18_Witness ==
    \/ /\ ~is_running
       /\ stop_called
       /\ pc = "done"
       /\ leave \in {"Stop", "Abort"}
    \/ /\ ~lifecycle.running
       /\ lifecycle.abort_requested
       /\ produced > Len(accepted)

\* C19: once is_running() is false the worker has no further side effect:
\* it makes no call of Connector.read, of the handler or of checkpoint.
C19_NoSideEffectAfterStopped ==
    [][(~is_running /\ ev' # ev)
          => ev'.type \notin {"read", "handle", "commit"}]_vars

\* C20: after stop() or the drop of the NakadiWorker the worker thread
\* terminates, every call of it returning: it ends (or the run is at the
\* bound of the reads, where no further read is taken).
C20_StopTerminatesThread ==
    stop_called ~> \/ pc \in {"done", "panicked"}
                   \/ (pc = "read" /\ issued = MaxStreams
                                    /\ attempt > MaxAttempts)

\* The one table of C21, for an answer with a status.
StatusTable(status) ==
    CASE status = 200 -> "Ok"
      [] status = 400 -> "Request"
      [] status = 403 -> "Forbidden"
      [] status = 404 -> "NoSubscription"
      [] status = 409 -> "Conflict"
      [] status = 422 -> "CursorUnprocessable"
      [] OTHER -> "Status"

\* C21: what read, checkpoint and stream_info return is given by the HTTP
\* status through one table: 200 (and 204 for checkpoint) is ok, 400
\* Request, 403 Forbidden, 404 NoSubscription, 409 Conflict, 422
\* CursorUnprocessable, any other status the generic status error; no
\* answer at all is Connection, and a 200 to a read without the
\* X-Nakadi-StreamId header is InvalidResponse.
C21_OneStatusTable ==
    response # "-" =>
        response =
            IF ~request.sent THEN "Connection"
            ELSE IF request.op = "checkpoint" /\ request.status = 204
                 THEN "Ok"
            ELSE IF request.op = "read" /\ request.status = 200
                    /\ ~request.stream_id
                 THEN "InvalidResponse"
            ELSE IF request.op = "stream_info" /\ request.status = 200
                    /\ ~request.parses
                 THEN "InvalidResponse"
            ELSE StatusTable(request.status)

\* C22: on a stream on which the handler has returned Continue for every
\* batch and every checkpoint call has succeeded, there is exactly one
\* checkpoint call per batch, a first attempt that carries the cursor and
\* the StreamId of that batch; it is made before process_line returns, so
\* before the next batch is given to the handler, and the calls are in wire
\* order.
C22_OneCommitPerBatchInWireOrder ==
    /\ [](happy =>
            /\ ev.type = "handle" =>
                  /\ ev.cursor.offset = line_no
                  /\ pc \in {"handling", "checkpoint", "commit"}
            /\ ev.type = "commit" =>
                  /\ ev.attempt = 1
                  /\ ev.info = "Ok"
                  /\ ev.cursor = cursor
                  /\ ev.cursor.offset = line_no
                  /\ ev.sid = stream_id
            /\ ((pc = "returned" /\ result = "Continue")
                   \/ (pc = "lines" /\ line_no >= 1)) =>
                  /\ ev.type = "commit"
                  /\ ev.cursor.offset = line_no)
    /\ [][(happy' /\ ev' # ev) =>
            /\ ev'.type = "commit" =>
                  /\ ev.type = "handle"
                  /\ ev'.cursor = ev.cursor
            /\ (ev'.type = "handle" /\ ev'.cursor.offset > 1) =>
                  /\ ev.type = "commit"
                  /\ ev.sid = ev'.sid
                  /\ ev.cursor.offset + 1 = ev'.cursor.offset]_vars

\* The second batch of a stream has been committed, at the first attempt,
\* after the first batch was handled and committed in the same way.
C22_Witness ==
    /\ happy
    /\ ev.type = "commit"
    /\ ev.cursor.offset = 2
    /\ pc = "lines"

\* C23: however dispatcher_loop has ended, stop() was called on every
\* worker before the loop waits for them, and the Lifecycle is signalled
\* stopped only when no worker is running: in no state is the dispatcher
\* stopped and a worker of it running.
C23_StoppedOnlyAfterWorkers ==
    /\ d_pc \in {"wait", "stopped", "ended"} =>
           \A i \in 1..Len(workers) : workers[i].stop_requested
    /\ (~lifecycle.running \/ d_pc \in {"stopped", "ended"}) =>
           /\ ~lifecycle.running
           /\ d_pc \in {"stopped", "ended"}
           /\ \A i \in 1..Len(workers) : ~workers[i].running

\* The loop has ended without an abort having been requested (on a
\* keep-alive, a partition that is not UTF-8, a refusing worker or the drop
\* of the Dispatcher) and the dispatcher has stopped, with two workers.
C23_Witness ==
    /\ ~lifecycle.abort_requested
    /\ d_pc = "stopped"
    /\ ~lifecycle.running
    /\ Len(workers) = 2

\* C24: a keep-alive (a batch without events) that the dispatcher receives
\* ends the loop: no worker is created on its receipt, it is forwarded to no
\* worker, and no batch after it is received or forwarded.
C24_KeepAliveEndsDispatcher ==
    /\ []((batch.seq > 0 /\ ~batch.events) =>
            /\ d_pc \in {"stop_workers", "wait", "stopped", "ended"}
            /\ \A i \in 1..Len(workers) :
                   \A k \in 1..Len(Forwarded(workers[i])) :
                       Forwarded(workers[i])[k] < batch.seq)
    /\ [][(batch' # batch /\ ~batch'.events) =>
            /\ workers' = workers
            /\ d_pc' = "stop_workers"]_vars
    /\ [][(batch.seq > 0 /\ ~batch.events) => batch' = batch]_vars

\* A keep-alive of partition "1" came second, after a batch of partition
\* "0" and before another batch: the dispatcher has stopped with the one
\* worker of partition "0".
C24_Witness ==
    /\ batch.seq = 2
    /\ ~batch.events
    /\ batch.partition = "1"
    /\ Len(accepted) >= 3
    /\ d_pc = "stopped"
    /\ Len(workers) = 1
    /\ workers[1].partition = "0"

\* C25: after Dispatcher::stop the dispatcher signals its Lifecycle as
\* stopped: whoever waits for it is not kept waiting for ever.
C25_StopLeadsToStopped ==
    lifecycle.abort_requested ~> ~lifecycle.running

\* The dispatcher has stopped on a requested abort, leaving in its mailbox
\* a batch it had accepted, with a worker that had been given a batch.
C25_Witness ==
    /\ lifecycle.abort_requested
    /\ ~lifecycle.running
    /\ channel # <<>>
    /\ batch.events
    /\ batch.seq > 0
    /\ \E i \in 1..Len(workers) : workers[i].seen # <<>>

\* C26: the worker has at most one stream open: it calls Connector.read
\* only when the line loop of the stream before has ended, a line is
\* handled and committed on the latest stream only, and while that stream
\* is open the worker is in its line loop.
C26_OneOpenStream ==
    /\ [](/\ ev.type \in {"handle", "commit"} =>
               /\ ev.sid = issued
               /\ ev.cursor.origin = issued
               /\ stream_id = issued
          /\ pc \in {"connect", "read", "pause"} => ended.sid = issued
          /\ ended.sid <= issued
          /\ ended.sid < issued =>
               pc \in {"lines", "handling", "checkpoint", "commit",
                       "returned", "done", "panicked"})
    /\ [][(ev' # ev /\ ev'.type = "read") => ended.sid = issued]_vars

\* A line of the second stream is with the handler; the first stream had
\* delivered a line and ended.
C26_Witness ==
    /\ ev.type = "handle"
    /\ ev.sid = 2
    /\ ended.sid = 1
    /\ ended.offset >= 2

\* The wire numbers of the batches forwarded to any worker.
ForwardedSeqs ==
    UNION {{Forwarded(workers[i])[k] : k \in 1..Len(Forwarded(workers[i]))} :
           i \in 1..Len(workers)}

\* C27: the batches forwarded to the workers are the first so many of the
\* batches that Dispatcher::process accepted, forwarded one by one in wire
\* order; once the loop has decided to stop no batch is forwarded any more,
\* accepted or not; and once dispatcher_loop has returned every call of
\* process returns an error, while before that every call is accepted.
C27_ForwardedIsPrefixOfAccepted ==
    /\ [](/\ ForwardedSeqs = 1..Cardinality(ForwardedSeqs)
          /\ Cardinality(ForwardedSeqs) <= Len(accepted) - Len(channel)
          /\ receiver = (d_pc # "ended"))
    /\ [][/\ ForwardedSeqs' # ForwardedSeqs =>
               /\ ForwardedSeqs' =
                      ForwardedSeqs \cup {Cardinality(ForwardedSeqs) + 1}
               /\ d_pc = "forward"
          /\ d_pc \in {"stop_workers", "wait", "stopped", "ended"} =>
               /\ ForwardedSeqs' = ForwardedSeqs
               /\ d_pc' \in {"stop_workers", "wait", "stopped", "ended"}
          /\ produced' # produced =>
               IF d_pc = "ended"
               THEN accepted' = accepted /\ channel' = channel
               ELSE Len(accepted') = Len(accepted) + 1]_vars

\* dispatcher_loop has returned after it had forwarded two batches; a batch
\* that was accepted later was dropped, and a call of process after the
\* return got an error.
C27_Witness ==
    /\ d_pc = "ended"
    /\ Cardinality(ForwardedSeqs) = 2
    /\ Len(accepted) > 2
    /\ produced > Len(accepted)

\* C28: checkpoint makes its first call whatever the running flag says, and
\* when it finds the flag false after a failed call it returns without a
\* further call; so when process_line returns Continue or Stop the cursor of
\* its batch was given to at least one checkpoint call, also when the worker
\* was stopped while the handler ran.
C28_CheckpointCallsAtLeastOnce ==
    /\ []((pc = "returned" /\ result \in {"Continue", "Stop"}) =>
            /\ ev.type = "commit"
            /\ ev.cursor = cursor
            /\ ev.sid = stream_id
            /\ cp_attempt >= 1)
    /\ [][(pc = "checkpoint" /\ pc' # pc) =>
            /\ cp_attempt = 0 => pc' = "commit"
            /\ (cp_attempt > 0 /\ ~is_running) =>
                  /\ pc' = "returned"
                  /\ ev' = ev
            /\ (cp_attempt > 0 /\ is_running) => pc' = "commit"]_vars

\* The worker was stopped before the first checkpoint call for a cursor; the
\* call was made all the same, it failed, and checkpoint returned without a
\* retry.
C28_Witness ==
    /\ stop_called
    /\ ~is_running
    /\ pc = "returned"
    /\ result = "Continue"
    /\ ev.type = "commit"
    /\ ev.attempt = 1
    /\ ev.info = "Connection"

\* C29: connect goes on for as long as the worker is running: whatever the
\* number of failed attempts, it sleeps and then either makes the next
\* attempt or, the flag being false, returns without a stream; it returns
\* without a stream in no other case, and nakadi_worker_loop then ends with
\* the flag false.
C29_ConnectNeverGivesUp ==
    /\ [](leave = "aborted" => (pc = "done" /\ ~is_running))
    /\ [][/\ (pc = "connect" /\ pc' # pc) =>
               IF is_running
               THEN pc' = "read" /\ attempt' = attempt + 1
               ELSE pc' = "done" /\ leave' = "aborted" /\ ~is_running'
          /\ (pc = "read" /\ pc' # pc) =>
               \/ pc' = "lines" /\ ev'.info = "Ok"
               \/ pc' = "pause" /\ ev'.info \in ReadErrors
          /\ (pc = "pause" /\ pc' # pc) => pc' = "connect"]_vars

\* connect makes attempt 18 after 17 failed ones, two more than the pause
\* table has entries.
C29_Witness ==
    /\ pc = "read"
    /\ is_running
    /\ attempt = 18
    /\ ev.type = "sleep"
    /\ ev.attempt = 17

\* C30: whenever the worker thread has ended, by a return of
\* nakadi_worker_loop or by unwinding, is_running() is false.
C30_EndedThreadIsNotRunning ==
    pc \in {"done", "panicked"} => ~is_running

=============================================================================
